---------------------------- MODULE Spec2Model ----------------------------
(***************************************************************************)
(* wikigraph (src/src/main.rs): a four-thread pipeline.                    *)
(*   xml_thread     reads a bzip2 Wikipedia dump, extracts (title, text)   *)
(*                  pages and sends them on the page queue (regex_tx);     *)
(*   regex_thread   receives pages, finds [[links]] with a regex and sends *)
(*                  (title, target) edges on the edge queue (sqlite_tx);   *)
(*   sqlite_thread  inserts the edges into an in-memory table, then builds *)
(*                  an index and backs the database up to disk;            *)
(*   progress_thread shows queue depths and the two atomic counters.       *)
(* Texts are sequences of one-character strings.                           *)
(***************************************************************************)
EXTENDS Integers, Sequences, FiniteSets, TLC

VARIABLES
    \* ---- the run's input
    input,          \* [name, enc, openable, doc]: the file named on the command line
    \* ---- main
    main_pc,
    \* ---- xml_thread
    xml_pc, decoder, events, xml_i, in_title, title, in_text, xml_msg, xml_warned,
    \* ---- the two atomic counters
    PAGE_COUNT, LINK_COUNT,
    \* ---- the two flume channels
    regex_q, sqlite_q,
    \* ---- regex_thread
    regex_pc, regex_title, regex_text, regex_pos, regex_cap,
    \* ---- sqlite_thread and its database
    sqlite_pc, sqlite_row, table, vertices, index, disk,
    \* ---- progress_thread
    progress_pc,
    \* ---- history: the pages xml_thread has sent, the elements fed to the reader
    emitted, chunks,
    \* ---- the link extractor run on its own
    lk_title, lk_text, lk_n, lk_out, lk_done

pipeVars == <<input, main_pc, xml_pc, decoder, events, xml_i, in_title, title,
              in_text, xml_msg, xml_warned, PAGE_COUNT, LINK_COUNT, regex_q,
              sqlite_q, regex_pc, regex_title, regex_text, regex_pos,
              regex_cap, sqlite_pc,
              sqlite_row, table, vertices, index, disk, progress_pc, emitted,
              chunks>>

linkVars == <<lk_title, lk_text, lk_n, lk_out, lk_done>>

vars == <<pipeVars, linkVars>>

(***************************************************************************)
(* Bounds of the model.                                                    *)
(***************************************************************************)
\* flume::bounded(512) twice in main; the model runs the same code with a
\* small capacity so that a full queue is reached by a short document.
Capacity == 2

\* the longest text, in fragments, given to the link extractor on its own
MaxFrags == 5

\* the most elements fed to the page extractor on its own
MaxChunks == 5

\* the most events fed to the page extractor one at a time
MaxEvents == 6

\* Option<T>: None is the empty sequence, Some(x) the one-element sequence
None == <<>>

Some(x) == <<x>>

Min(S) == CHOOSE x \in S : \A y \in S : x <= y

\* ------------------------------------------------------------------------
\* The link regex   (?:\[\[)([^\[\]]+?)(?:\|[^\[\]]*)?(?:\]\])
\* matched the way a leftmost-first (backtracking) engine matches it.
\* ------------------------------------------------------------------------
\* the character class [^\[\]]
NonBracket(c) == c \notin {"[", "]"}

\* the two-character literal a b at position i of s
Lit(s, i, a, b) == i >= 1 /\ i + 1 <= Len(s) /\ s[i] = a /\ s[i + 1] = b

\* the last index of the longest run of [^\[\]] characters starting at i
\* (i - 1 when the run is empty)
RECURSIVE RunEnd(_, _)
RunEnd(s, i) ==
    IF i <= Len(s) /\ NonBracket(s[i]) THEN RunEnd(s, i + 1) ELSE i - 1

\* the greedy [^\[\]]* of the optional group ending at k, then shorter ones
\* down to lo, each followed by \]\]: the last index of the match, or 0
RECURSIVE GreedyTail(_, _, _)
GreedyTail(s, k, lo) ==
    IF k < lo THEN 0
    ELSE IF Lit(s, k + 1, "]", "]") THEN k + 2
    ELSE GreedyTail(s, k - 1, lo)

\* (?:\|[^\[\]]*)?(?:\]\]) tried right after index j: the index of the last
\* character of the whole match, or 0.  The optional group is greedy, so it is
\* tried first and with its longest run first; without it, ]] must follow j.
TailMatch(s, j) ==
    LET withPipe == IF j + 1 <= Len(s) /\ s[j + 1] = "|"
                    THEN GreedyTail(s, RunEnd(s, j + 2), j + 1)
                    ELSE 0
    IN  IF withPipe # 0 THEN withPipe
        ELSE IF Lit(s, j + 1, "]", "]") THEN j + 2
        ELSE 0

\* ([^\[\]]+?) ending at j, then longer ones up to hi: the end of the first
\* for which the rest of the regex matches, or 0
RECURSIVE LazyGroup(_, _, _)
LazyGroup(s, j, hi) ==
    IF j > hi THEN 0
    ELSE IF TailMatch(s, j) # 0 THEN j
    ELSE LazyGroup(s, j + 1, hi)

\* ([^\[\]]+) ending at j, then shorter ones down to lo
RECURSIVE GreedyGroup(_, _, _)
GreedyGroup(s, j, lo) ==
    IF j < lo THEN 0
    ELSE IF TailMatch(s, j) # 0 THEN j
    ELSE GreedyGroup(s, j - 1, lo)

NoMatch == [ok |-> FALSE, cap |-> <<>>, end |-> 0]

\* the regex with a greedy group 1, ([^\[\]]+)
MatchAtGreedy(s, i) ==
    IF ~Lit(s, i, "[", "[") THEN NoMatch
    ELSE LET j == GreedyGroup(s, RunEnd(s, i + 2), i + 2)
         IN  IF j = 0 THEN NoMatch
             ELSE [ok |-> TRUE, cap |-> SubSeq(s, i + 2, j), end |-> TailMatch(s, j)]

\* the whole regex anchored at i: [[, then group 1, lazy, so the shortest
\* candidate for which the rest matches wins; capture[1] and the index of the
\* last character matched
MatchAt(s, i) ==
    IF ~Lit(s, i, "[", "[") THEN NoMatch
    ELSE LET j == LazyGroup(s, i + 2, RunEnd(s, i + 2))
         IN  IF j = 0 THEN NoMatch
             ELSE [ok |-> TRUE, cap |-> SubSeq(s, i + 2, j), end |-> TailMatch(s, j)]

\* where the leftmost match at or after p starts, or 0
RECURSIVE NextMatchStart(_, _)
NextMatchStart(s, p) ==
    IF p > Len(s) THEN 0
    ELSE IF MatchAt(s, p).ok THEN p
    ELSE NextMatchStart(s, p + 1)

\* regex.captures_iter(&text) from position p on: capture[1] of the leftmost
\* match, then of the leftmost match after its end, and so on
RECURSIVE CapturesFrom(_, _)
CapturesFrom(s, p) ==
    LET n == NextMatchStart(s, p)
    IN  IF n = 0 THEN <<>>
        ELSE <<MatchAt(s, n).cap>> \o CapturesFrom(s, MatchAt(s, n).end + 1)

\* the (title.clone(), capture[1].to_string()) tuples regex_thread sends for
\* one page, in the order it sends them
LinkEdges(t, text) ==
    LET caps == CapturesFrom(text, 1)
    IN  [n \in 1..Len(caps) |-> <<t, caps[n]>>]

(***************************************************************************)
(* The markup events quick_xml's read_event_into returns.                  *)
(***************************************************************************)
StartEv(n) == [k |-> "Start", name |-> n, raw |-> <<>>]

EndEv == [k |-> "End", name |-> "", raw |-> <<>>]

TextEv(r) == [k |-> "Text", name |-> "", raw |-> r]

\* Event::Empty, Comment, CData, Decl, PI, DocType: the arms the match leaves to _
OtherEv == [k |-> "Other", name |-> "", raw |-> <<>>]

EofEv == [k |-> "Eof", name |-> "", raw |-> <<>>]

\* read_event_into returned Err (bad markup, or an I/O error of the decoder)
ErrEv == [k |-> "Err", name |-> "", raw |-> <<>>]

\* <n>r</n>
Element(n, r) == <<StartEv(n), TextEv(r), EndEv>>

\* text.unescape(), without the entity replacement
UnescapeIdentity(raw) == [ok |-> TRUE, val |-> raw]

\* text.unescape(): "&amp;" stands for the predefined entities, which are
\* replaced by their character; "&bad;" for an unknown entity, an error
Unescape(raw) ==
    IF \E n \in DOMAIN raw : raw[n] = "&bad;"
    THEN [ok |-> FALSE, val |-> <<>>]
    ELSE [ok |-> TRUE,
          val |-> [n \in DOMAIN raw |-> IF raw[n] = "&amp;" THEN "&" ELSE raw[n]]]

(***************************************************************************)
(* The input file: its name (as segments), how its bytes are encoded,      *)
(* whether File::open succeeds, and the markup events its content holds.   *)
(***************************************************************************)
\* bzip2::read::MultiBzDecoder over the file: bzip2 data, of one stream or of
\* several, decodes to its markup; other bytes fail on the first read
MultiBzDecode(enc, doc) == IF enc \in {"multi", "single"} THEN doc ELSE <<ErrEv>>

\* the decoder xml_thread builds for a file of this name: always MultiBzDecoder
\* (the *.xml reader is commented out)
SelectDecoder(name) == "multi"

TitleA == <<"A">>

TitleB == <<"B", "&amp;">>

\* <page><title>t</title><ns>0</ns><revision><text>x</text></revision></page>
PageElements(t, x) ==
    <<StartEv("page")>> \o Element("title", t) \o Element("ns", <<"0">>)
        \o <<StartEv("revision")>> \o Element("text", x) \o <<EndEv, EndEv>>

TextOneLink == <<"[", "[", "a", "]", "]">>

TextTwoLinks == <<"[", "[", "a", "|", "b", "]", "]", "s", "[", "[", "b", "]", "]">>

TextNoLink == <<"s", "[", "[", "]", "]">>

DocEmpty == <<EofEv>>

DocPages ==
    PageElements(TitleA, TextOneLink) \o PageElements(TitleB, TextTwoLinks)
        \o PageElements(TitleA, TextOneLink) \o PageElements(TitleB, TextNoLink)
        \o PageElements(TitleA, TextTwoLinks) \o <<EofEv>>

DocBroken == PageElements(TitleA, TextTwoLinks) \o <<ErrEv>>

DocBadEntity == PageElements(TitleA, <<"&bad;">>) \o <<EofEv>>

NameMulti == <<"enwiki", "-", "multistream", ".xml", ".bz2">>

NameSingle == <<"enwiki", ".XML", ".BZ2">>

NameRaw == <<"enwiki", ".xml">>

File(n, e, o, d) == [name |-> n, enc |-> e, openable |-> o, doc |-> d]

Docs == {DocEmpty, DocPages, DocBroken, DocBadEntity}

\* The elements fed one at a time to the page extractor on its own: a title
\* element, a text element, or markup that is neither.  raw is the content as
\* written in the file, plain the characters it stands for.
TitleChunk(r, pl) == [kind |-> "title", raw |-> r, plain |-> pl]

TextChunk(r, pl) == [kind |-> "text", raw |-> r, plain |-> pl]

JunkChunk == [kind |-> "junk", raw |-> <<>>, plain |-> <<>>]

ChunkKinds ==
    { TitleChunk(<<"A">>, <<"A">>), TitleChunk(<<"B", "&amp;">>, <<"B", "&">>),
      TextChunk(<<"x">>, <<"x">>), TextChunk(<<"&amp;", "y">>, <<"&", "y">>),
      JunkChunk }

\* the events the reader returns for one of these elements
EventsOf(c) ==
    IF c.kind = "junk"
    THEN <<TextEv(<<" ">>), StartEv("ns"), TextEv(<<"0">>), EndEv, OtherEv>>
    ELSE Element(c.kind, c.raw)

\* every text a page of these documents and elements can carry
PageTexts ==
    UNION {{Unescape(d[n].raw).val : n \in {m \in DOMAIN d : d[m].k = "Text"}} : d \in Docs}
      \cup {Unescape(c.raw).val : c \in ChunkKinds}

\* captures_iter(&text).next() with the search at position p: the leftmost
\* match at or after p, for every text a page can carry (computed once)
MatchTable ==
    [s \in PageTexts |->
        [p \in 1..(Len(s) + 1) |->
            IF NextMatchStart(s, p) = 0 THEN NoMatch
            ELSE MatchAt(s, NextMatchStart(s, p))]]

NextMatch(s, p) == MatchTable[s][p]

Inputs ==
    { File(NameMulti, "multi", TRUE, DocEmpty),
      File(NameMulti, "multi", TRUE, DocPages),
      File(NameMulti, "multi", TRUE, DocBroken),
      File(NameMulti, "multi", TRUE, DocBadEntity),
      File(NameSingle, "single", TRUE, DocPages),
      File(NameRaw, "raw", TRUE, DocPages),
      File(NameMulti, "multi", FALSE, DocEmpty) }

(***************************************************************************)
(* Threads and channel handles.                                            *)
(***************************************************************************)
Running(pc) == pc \notin {"unspawned", "exited", "panicked"}

Ended(pc) == pc \in {"exited", "panicked"}

\* main's locals regex_tx, regex_rx, sqlite_tx live until main returns
MainAlive == main_pc \notin {"done", "panicked"}

Count(b) == IF b THEN 1 ELSE 0

\* live Sender handles of the page queue: main's regex_tx, and the clones
\* the xml_thread and progress_thread closures make
RegexTxCount == Count(MainAlive) + Count(Running(xml_pc)) + Count(Running(progress_pc))

\* live Receiver handles of the page queue: main's regex_rx and regex_thread's clone
RegexRxCount == Count(MainAlive) + Count(Running(regex_pc))

\* live Sender handles of the edge queue: main's sqlite_tx, and the clones
\* the regex_thread and progress_thread closures make
SqliteTxCount == Count(MainAlive) + Count(Running(regex_pc)) + Count(Running(progress_pc))

\* the one Receiver of the edge queue is moved into sqlite_thread, which
\* holds it until its for loop ends or the thread unwinds
SqliteRxCount ==
    Count(sqlite_pc \in {"unspawned", "create", "prepare", "recv", "insert", "count"})

\* a bounded channel that takes a message although it is full
CanSendOverfull(q) == Len(q) <= Capacity

\* flume::bounded(cap): send goes through only while fewer than cap are queued
CanSend(q) == Len(q) < Capacity

\* a channel that hands out its messages last in, first out
EnqueueFront(q, m) == <<m>> \o q

\* the channel is FIFO: send appends, recv takes the head
Enqueue(q, m) == Append(q, m)

\* a receiver loop that ends as soon as its queue is empty
QueueEmpty(q, senders) == q = <<>>

\* `for m in rx`: the iteration ends when the queue is empty and every Sender
\* of the channel has been dropped
QueueClosed(q, senders) == q = <<>> /\ senders = 0

\* a match guard that takes the Start of any element
IsStartAny(e, n) == e.k = "Start"

\* Ok(Event::Start(start)) if start.name().into_inner() == n
IsStart(e, n) == e.k = "Start" /\ e.name = n

\* a counter whose update is lost
FetchAddLost(c) == c

\* COUNT.fetch_add(1, Ordering::SeqCst): one atomic read-modify-write
FetchAdd(c) == c + 1

\* an edge with its two fields swapped
EdgeSwapped(t, cap) == <<cap, t>>

\* (title.clone(), capture[1].to_string())
Edge(t, cap) == <<t, cap>>

PipeIdle ==
    /\ input = File(<<>>, "raw", FALSE, <<>>)
    /\ main_pc = "idle"
    /\ xml_pc = "unspawned" /\ decoder = "none" /\ events = <<>> /\ xml_i = 0
    /\ in_title = FALSE /\ title = None /\ in_text = FALSE /\ xml_msg = None
    /\ xml_warned = 0
    /\ PAGE_COUNT = 0 /\ LINK_COUNT = 0
    /\ regex_q = <<>> /\ sqlite_q = <<>>
    /\ regex_pc = "unspawned" /\ regex_title = None /\ regex_text = <<>>
    /\ regex_pos = 0 /\ regex_cap = None
    /\ sqlite_pc = "unspawned" /\ sqlite_row = None /\ table = FALSE
    /\ vertices = <<>> /\ index = FALSE /\ disk = None
    /\ progress_pc = "unspawned"
    /\ emitted = <<>> /\ chunks = <<>>

LinkIdle ==
    /\ lk_title = <<>> /\ lk_text = <<>> /\ lk_n = 0 /\ lk_out = <<>>
    /\ lk_done = FALSE

xmlVars == <<xml_pc, decoder, events, xml_i, in_title, title, in_text, xml_msg,
             xml_warned, emitted>>

regexVars == <<regex_pc, regex_title, regex_text, regex_pos, regex_cap>>

sqliteVars == <<sqlite_pc, sqlite_row, table, vertices, index, disk>>

(***************************************************************************)
(* main: thread::scope spawns the three workers, sleeps one second, spawns *)
(* progress_thread, and returns once every spawned thread has finished.    *)
(***************************************************************************)
MainSpawnXml ==
    /\ main_pc = "spawn_xml"
    /\ main_pc' = "spawn_regex"
    /\ xml_pc' = "open"
    /\ UNCHANGED <<input, decoder, events, xml_i, in_title, title, in_text, xml_msg,
                   xml_warned, emitted, PAGE_COUNT, LINK_COUNT, regex_q, sqlite_q,
                   regexVars, sqliteVars, progress_pc, chunks, linkVars>>

MainSpawnRegex ==
    /\ main_pc = "spawn_regex"
    /\ main_pc' = "spawn_sqlite"
    /\ regex_pc' = "recv"
    /\ UNCHANGED <<input, xmlVars, PAGE_COUNT, LINK_COUNT, regex_q, sqlite_q,
                   regex_title, regex_text, regex_pos, regex_cap, sqliteVars,
                   progress_pc, chunks, linkVars>>

MainSpawnSqlite ==
    /\ main_pc = "spawn_sqlite"
    /\ main_pc' = "sleep"
    /\ sqlite_pc' = "create"
    /\ UNCHANGED <<input, xmlVars, PAGE_COUNT, LINK_COUNT, regex_q, sqlite_q,
                   regexVars, sqlite_row, table, vertices, index, disk, progress_pc,
                   chunks, linkVars>>

MainSleep ==
    /\ main_pc = "sleep"
    /\ main_pc' = "spawn_progress"
    /\ UNCHANGED <<input, xmlVars, PAGE_COUNT, LINK_COUNT, regex_q, sqlite_q,
                   regexVars, sqliteVars, progress_pc, chunks, linkVars>>

MainSpawnProgress ==
    /\ main_pc = "spawn_progress"
    /\ main_pc' = "join"
    /\ progress_pc' = "loop"
    /\ UNCHANGED <<input, xmlVars, PAGE_COUNT, LINK_COUNT, regex_q, sqlite_q,
                   regexVars, sqliteVars, chunks, linkVars>>

\* the end of thread::scope: it joins every spawned thread, and panics if one
\* of them panicked; then main returns
MainJoin ==
    /\ main_pc = "join"
    /\ Ended(xml_pc) /\ Ended(regex_pc) /\ Ended(sqlite_pc) /\ Ended(progress_pc)
    /\ main_pc' = IF "panicked" \in {xml_pc, regex_pc, sqlite_pc, progress_pc}
                  THEN "panicked" ELSE "done"
    /\ UNCHANGED <<input, xmlVars, PAGE_COUNT, LINK_COUNT, regex_q, sqlite_q,
                   regexVars, sqliteVars, progress_pc, chunks, linkVars>>

(***************************************************************************)
(* xml_thread                                                              *)
(***************************************************************************)
\* File::open(xml_file).unwrap(), then the decoder and the reader over it
XmlOpen ==
    /\ xml_pc = "open"
    /\ IF input.openable
       THEN /\ decoder' = SelectDecoder(input.name)
            /\ events' = MultiBzDecode(input.enc, input.doc)
            /\ xml_pc' = "read"
       ELSE /\ xml_pc' = "panicked"
            /\ UNCHANGED <<decoder, events>>
    /\ UNCHANGED <<input, main_pc, xml_i, in_title, title, in_text, xml_msg,
                   xml_warned, emitted, PAGE_COUNT, LINK_COUNT, regex_q, sqlite_q,
                   regexVars, sqliteVars, progress_pc, chunks, linkVars>>

\* one turn of the loop: read_event_into and the match on what it returned,
\* up to the send of a page
XmlRead ==
    /\ xml_pc = "read"
    /\ xml_i < Len(events)
    /\ xml_i' = xml_i + 1
    /\ LET e == events[xml_i + 1]
           u == Unescape(e.raw)
       IN  CASE e.k = "Err" ->
                    /\ xml_pc' = "panicked"
                    /\ UNCHANGED <<in_title, title, in_text, xml_msg, xml_warned, PAGE_COUNT>>
             [] IsStart(e, "title") ->
                    /\ in_title' = TRUE
                    /\ UNCHANGED <<xml_pc, title, in_text, xml_msg, xml_warned, PAGE_COUNT>>
             [] IsStart(e, "text") ->
                    /\ in_text' = TRUE
                    /\ UNCHANGED <<xml_pc, in_title, title, xml_msg, xml_warned, PAGE_COUNT>>
             [] e.k = "Text" /\ in_title ->
                    IF u.ok
                    THEN /\ title' = Some(u.val)
                         /\ PAGE_COUNT' = FetchAdd(PAGE_COUNT)
                         /\ UNCHANGED <<xml_pc, in_title, in_text, xml_msg, xml_warned>>
                    ELSE /\ xml_pc' = "panicked"
                         /\ UNCHANGED <<in_title, title, in_text, xml_msg, xml_warned,
                                        PAGE_COUNT>>
             [] e.k = "Text" /\ ~in_title /\ in_text ->
                    IF title = None
                    THEN /\ xml_warned' = xml_warned + 1
                         /\ UNCHANGED <<xml_pc, in_title, title, in_text, xml_msg,
                                        PAGE_COUNT>>
                    ELSE IF u.ok
                    THEN /\ xml_msg' = Some(<<title[1], u.val>>)
                         /\ xml_pc' = "send"
                         /\ UNCHANGED <<in_title, title, in_text, xml_warned, PAGE_COUNT>>
                    ELSE /\ xml_pc' = "panicked"
                         /\ UNCHANGED <<in_title, title, in_text, xml_msg, xml_warned,
                                        PAGE_COUNT>>
             [] e.k = "End" ->
                    /\ in_title' = FALSE
                    /\ in_text' = FALSE
                    /\ UNCHANGED <<xml_pc, title, xml_msg, xml_warned, PAGE_COUNT>>
             [] e.k = "Eof" ->
                    /\ xml_pc' = "exited"
                    /\ UNCHANGED <<in_title, title, in_text, xml_msg, xml_warned, PAGE_COUNT>>
             [] OTHER ->
                    UNCHANGED <<xml_pc, in_title, title, in_text, xml_msg, xml_warned,
                                PAGE_COUNT>>
    /\ UNCHANGED <<input, main_pc, decoder, events, emitted, LINK_COUNT, regex_q,
                   sqlite_q, regexVars, sqliteVars, progress_pc, chunks, linkVars>>

\* regex_tx.send((title.clone(), text)).unwrap(): blocks while the page queue
\* is full, fails when every receiver is gone
XmlSend ==
    /\ xml_pc = "send"
    /\ IF RegexRxCount = 0
       THEN /\ xml_pc' = "panicked"
            /\ UNCHANGED <<regex_q, emitted, xml_msg>>
       ELSE /\ CanSend(regex_q)
            /\ regex_q' = Enqueue(regex_q, xml_msg[1])
            /\ emitted' = Append(emitted, xml_msg[1])
            /\ xml_msg' = None
            /\ xml_pc' = "read"
    /\ UNCHANGED <<input, main_pc, decoder, events, xml_i, in_title, title, in_text,
                   xml_warned, PAGE_COUNT, LINK_COUNT, sqlite_q, regexVars, sqliteVars,
                   progress_pc, chunks, linkVars>>

(***************************************************************************)
(* regex_thread                                                            *)
(***************************************************************************)
\* the next (title, text) of `for (title, text) in regex_rx`: the head of the
\* queue; the loop ends when the queue is empty and every sender is gone
RegexRecv ==
    /\ regex_pc = "recv"
    /\ IF regex_q # <<>>
       THEN /\ regex_q' = Tail(regex_q)
            /\ regex_title' = Some(Head(regex_q)[1])
            /\ regex_text' = Head(regex_q)[2]
            /\ regex_pos' = 1
            /\ regex_pc' = "match"
       ELSE /\ QueueClosed(regex_q, RegexTxCount)
            /\ regex_pc' = "exited"
            /\ UNCHANGED <<regex_q, regex_title, regex_text, regex_pos>>
    /\ UNCHANGED <<input, main_pc, xmlVars, PAGE_COUNT, LINK_COUNT, sqlite_q,
                   regex_cap, sqliteVars, progress_pc, chunks, linkVars>>

\* the next item of regex.captures_iter(&text): the leftmost match at or
\* after the end of the previous one; none ends the inner loop, and the page
\* is dropped
RegexMatch ==
    /\ regex_pc = "match"
    /\ IF NextMatch(regex_text, regex_pos).ok
       THEN /\ regex_cap' = Some(NextMatch(regex_text, regex_pos).cap)
            /\ regex_pos' = NextMatch(regex_text, regex_pos).end + 1
            /\ regex_pc' = "send"
            /\ UNCHANGED <<regex_title, regex_text>>
       ELSE /\ regex_pc' = "recv"
            /\ regex_title' = None
            /\ regex_text' = <<>>
            /\ regex_pos' = 0
            /\ UNCHANGED regex_cap
    /\ UNCHANGED <<input, main_pc, xmlVars, PAGE_COUNT, LINK_COUNT, regex_q, sqlite_q,
                   sqliteVars, progress_pc, chunks, linkVars>>

\* sqlite_tx.send((title.clone(), capture[1].to_string())).unwrap(): blocks
\* while the edge queue is full, fails when the receiver is gone
RegexSend ==
    /\ regex_pc = "send"
    /\ IF SqliteRxCount = 0
       THEN /\ regex_pc' = "panicked"
            /\ regex_title' = None
            /\ regex_text' = <<>>
            /\ regex_pos' = 0
            /\ regex_cap' = None
            /\ UNCHANGED sqlite_q
       ELSE /\ CanSend(sqlite_q)
            /\ sqlite_q' = Enqueue(sqlite_q, Edge(regex_title[1], regex_cap[1]))
            /\ regex_cap' = None
            /\ regex_pc' = "match"
            /\ UNCHANGED <<regex_title, regex_text, regex_pos>>
    /\ UNCHANGED <<input, main_pc, xmlVars, PAGE_COUNT, LINK_COUNT, regex_q,
                   sqliteVars, progress_pc, chunks, linkVars>>

(***************************************************************************)
(* sqlite_thread                                                           *)
(***************************************************************************)
\* the next (source, target) of `for (source, target) in sqlite_rx`; the loop
\* ends, and the receiver is dropped, when the queue is empty and every sender
\* is gone
SqliteRecv ==
    /\ sqlite_pc = "recv"
    /\ IF sqlite_q # <<>>
       THEN /\ sqlite_row' = Some(Head(sqlite_q))
            /\ sqlite_q' = Tail(sqlite_q)
            /\ sqlite_pc' = "insert"
       ELSE /\ QueueClosed(sqlite_q, SqliteTxCount)
            /\ sqlite_pc' = "index"
            /\ UNCHANGED <<sqlite_row, sqlite_q>>
    /\ UNCHANGED <<input, main_pc, xmlVars, PAGE_COUNT, LINK_COUNT, regex_q,
                   regexVars, table, vertices, index, disk, progress_pc, chunks,
                   linkVars>>

\* the next statement of sqlite_thread on its database, when it succeeds:
\* CREATE TABLE, prepare, insert.execute, LINK_COUNT.fetch_add, CREATE INDEX,
\* backup to database_file
SqliteStep ==
    /\ CASE sqlite_pc = "create" ->
                /\ table' = TRUE
                /\ sqlite_pc' = "prepare"
                /\ UNCHANGED <<sqlite_row, vertices, index, disk, LINK_COUNT>>
         [] sqlite_pc = "prepare" ->
                /\ sqlite_pc' = "recv"
                /\ UNCHANGED <<sqlite_row, table, vertices, index, disk, LINK_COUNT>>
         [] sqlite_pc = "insert" ->
                /\ vertices' = Append(vertices, sqlite_row[1])
                /\ sqlite_pc' = "count"
                /\ UNCHANGED <<sqlite_row, table, index, disk, LINK_COUNT>>
         [] sqlite_pc = "count" ->
                /\ LINK_COUNT' = FetchAdd(LINK_COUNT)
                /\ sqlite_row' = None
                /\ sqlite_pc' = "recv"
                /\ UNCHANGED <<table, vertices, index, disk>>
         [] sqlite_pc = "index" ->
                /\ index' = TRUE
                /\ sqlite_pc' = "backup"
                /\ UNCHANGED <<sqlite_row, table, vertices, disk, LINK_COUNT>>
         [] sqlite_pc = "backup" ->
                /\ disk' = Some(vertices)
                /\ sqlite_pc' = "exited"
                /\ UNCHANGED <<sqlite_row, table, vertices, index, LINK_COUNT>>
         [] OTHER -> FALSE
    /\ UNCHANGED <<input, main_pc, xmlVars, PAGE_COUNT, regex_q, sqlite_q, regexVars,
                   progress_pc, chunks, linkVars>>

\* one of the .unwrap()s of sqlite_thread on an error of the database: the
\* thread unwinds, dropping its receiver
SqliteFail ==
    /\ sqlite_pc \in {"create", "prepare", "insert", "index", "backup"}
    /\ sqlite_pc' = "panicked"
    /\ sqlite_row' = None
    /\ UNCHANGED <<input, main_pc, xmlVars, PAGE_COUNT, LINK_COUNT, regex_q, sqlite_q,
                   regexVars, table, vertices, index, disk, progress_pc, chunks,
                   linkVars>>

(***************************************************************************)
(* progress_thread                                                         *)
(***************************************************************************)
\* the loop condition, then one display of the queue lengths and counters
ProgressLoop ==
    /\ progress_pc = "loop"
    /\ progress_pc' = IF RegexRxCount = 0 \/ SqliteRxCount = 0 THEN "exited" ELSE "loop"
    /\ UNCHANGED <<input, main_pc, xmlVars, PAGE_COUNT, LINK_COUNT, regex_q, sqlite_q,
                   regexVars, sqliteVars, chunks, linkVars>>

(***************************************************************************)
(* The program: one run on one input file.                                 *)
(***************************************************************************)
Init ==
    /\ LinkIdle
    /\ input \in Inputs
    /\ main_pc = "spawn_xml"
    /\ xml_pc = "unspawned" /\ decoder = "none" /\ events = <<>> /\ xml_i = 0
    /\ in_title = FALSE /\ title = None /\ in_text = FALSE /\ xml_msg = None
    /\ xml_warned = 0
    /\ PAGE_COUNT = 0 /\ LINK_COUNT = 0
    /\ regex_q = <<>> /\ sqlite_q = <<>>
    /\ regex_pc = "unspawned" /\ regex_title = None /\ regex_text = <<>>
    /\ regex_pos = 0 /\ regex_cap = None
    /\ sqlite_pc = "unspawned" /\ sqlite_row = None /\ table = FALSE
    /\ vertices = <<>> /\ index = FALSE /\ disk = None
    /\ progress_pc = "unspawned"
    /\ emitted = <<>> /\ chunks = <<>>

Main ==
    \/ MainSpawnXml \/ MainSpawnRegex \/ MainSpawnSqlite \/ MainSleep
    \/ MainSpawnProgress \/ MainJoin

XmlThread == XmlOpen \/ XmlRead \/ XmlSend

RegexThread == RegexRecv \/ RegexMatch \/ RegexSend

SqliteThread == SqliteRecv \/ SqliteStep

Next == Main \/ XmlThread \/ RegexThread \/ SqliteThread \/ SqliteFail \/ ProgressLoop

Spec == Init /\ [][Next]_vars

\* every thread that can take a step is scheduled eventually; nothing makes a
\* database statement fail
FairSpec ==
    /\ Spec
    /\ WF_vars(Main) /\ WF_vars(XmlThread) /\ WF_vars(RegexThread)
    /\ WF_vars(SqliteThread) /\ WF_vars(ProgressLoop)

(***************************************************************************)
(* Properties of the pipeline.                                             *)
(***************************************************************************)
AnyPanicked == "panicked" \in {xml_pc, regex_pc, sqlite_pc, progress_pc}

AllExited ==
    /\ xml_pc = "exited" /\ regex_pc = "exited" /\ sqlite_pc = "exited"
    /\ progress_pc = "exited" /\ main_pc = "done"

\* C1: once xml_thread has reached end-of-stream, and unless a worker fails,
\* every worker eventually exits and main returns from thread::scope.
XmlEofLeadsToExit == (xml_pc = "exited") ~> (AllExited \/ AnyPanicked)

\* C2: once xml_thread has reached end-of-stream, and unless a worker fails,
\* the index is eventually built and the staging database copied to the
\* --database path.
XmlEofLeadsToStoreWritten ==
    (xml_pc = "exited") ~> ((index /\ disk = Some(vertices)) \/ AnyPanicked)

\* C3: neither queue ever holds more than its capacity.
QueuesWithinCapacity == Len(regex_q) <= Capacity /\ Len(sqlite_q) <= Capacity

\* both producers are blocked in send on a full queue
ProducersBlockedOnFullQueues ==
    /\ xml_pc = "send" /\ Len(regex_q) = Capacity /\ ~ENABLED XmlSend
    /\ regex_pc = "send" /\ Len(sqlite_q) = Capacity /\ ~ENABLED RegexSend

\* every page's edges, page after page
RECURSIVE EdgesOfPages(_)
EdgesOfPages(pages) ==
    IF pages = <<>> THEN <<>>
    ELSE LinkEdges(Head(pages)[1], Head(pages)[2]) \o EdgesOfPages(Tail(pages))

IsPrefix(a, b) == Len(a) <= Len(b) /\ a = SubSeq(b, 1, Len(a))

\* the edges on their way to the table, oldest first: the row about to be
\* inserted, the edge queue, the edge regex_thread is sending, the matches
\* left in the page it is working on, and the edges of the pages still in the
\* page queue
EdgesInFlight ==
    (IF sqlite_pc = "insert" THEN sqlite_row ELSE <<>>)
        \o sqlite_q
        \o (IF regex_pc = "send" THEN <<<<regex_title[1], regex_cap[1]>>>> ELSE <<>>)
        \o (IF regex_pc \in {"match", "send"}
            THEN LET rest == CapturesFrom(regex_text, regex_pos)
                 IN  [n \in 1..Len(rest) |-> <<regex_title[1], rest[n]>>]
            ELSE <<>>)
        \o EdgesOfPages(regex_q)

\* C4: the rows of vertices are always a prefix of the edges of the pages
\* xml_thread has sent, in page order and match order; and while no thread has
\* failed, the rows followed by the edges in flight are exactly those edges:
\* none lost, none added, none reordered.
RowsArePrefixOfEmittedEdges ==
    /\ IsPrefix(vertices, EdgesOfPages(emitted))
    /\ ~AnyPanicked => vertices \o EdgesInFlight = EdgesOfPages(emitted)

\* all the edges of the five pages are in the table, two of them twice
AllRowsInsertedWithDuplicates ==
    /\ Len(emitted) = 5
    /\ vertices = EdgesOfPages(emitted)
    /\ Len(vertices) = 6
    /\ vertices[1] = vertices[4]
    /\ vertices[2] # vertices[3]

\* C8: once a worker has panicked, the process eventually terminates.
PanicLeadsToTermination == AnyPanicked ~> ~MainAlive

\* the rule of C9 on a file name: lower-cased, the suffix multistream.xml.bz2
\* selects the multi-stream decoder, another .xml.bz2 the single-stream one,
\* anything else the plain reader
Lower(seg) ==
    CASE seg = ".XML" -> ".xml"
      [] seg = ".BZ2" -> ".bz2"
      [] seg = "MULTISTREAM" -> "multistream"
      [] OTHER -> seg

EndsWith(name, suffix) ==
    /\ Len(name) >= Len(suffix)
    /\ \A n \in 1..Len(suffix) :
          Lower(name[Len(name) - Len(suffix) + n]) = suffix[n]

Classify(name) ==
    IF EndsWith(name, <<"multistream", ".xml", ".bz2">>) THEN "multi"
    ELSE IF EndsWith(name, <<".xml", ".bz2">>) THEN "single"
    ELSE "raw"

\* the pages of a document whose every title and text is read whole
PagesOfDocPages ==
    << <<Unescape(TitleA).val, TextOneLink>>, <<Unescape(TitleB).val, TextTwoLinks>>,
       <<Unescape(TitleA).val, TextOneLink>>, <<Unescape(TitleB).val, TextNoLink>>,
       <<Unescape(TitleA).val, TextTwoLinks>> >>

\* C9: the decoder is the one the file name's suffix selects, and a file of
\* any of the three kinds holding the same markup gives the same pages.
DecoderChosenBySuffix ==
    /\ decoder # "none" => decoder = Classify(input.name)
    /\ (input.doc = DocPages /\ input.enc = Classify(input.name) /\ Ended(xml_pc))
          => emitted = PagesOfDocPages

\* C10: when the input file cannot be opened, no worker is running and the
\* database has not been touched.
OpenFailureStartsNoPipeline ==
    (~input.openable /\ xml_pc = "panicked")
        => /\ ~Running(regex_pc) /\ ~Running(sqlite_pc) /\ ~Running(progress_pc)
           /\ ~table /\ vertices = <<>> /\ ~index /\ disk = None

Range(f) == {f[n] : n \in DOMAIN f}

\* the edges regex_thread has derived so far and not lost: the rows of the
\* table, the row being inserted, the edge queue, the edge being sent
EdgesDerived ==
    Range(vertices) \cup Range(sqlite_row) \cup Range(sqlite_q)
        \cup (IF regex_pc = "send" THEN {Edge(regex_title[1], regex_cap[1])} ELSE {})

\* C11: every edge sent to the edge queue or inserted into the table has as
\* its source the title of a page xml_thread has already sent to the page
\* queue, and is a link of that page's text; the page regex_thread is working
\* on is one of the pages sent.
EdgeSourcesAreEmittedTitles ==
    /\ \A e \in EdgesDerived :
          \E n \in DOMAIN emitted :
              /\ e[1] = emitted[n][1]
              /\ e \in Range(LinkEdges(emitted[n][1], emitted[n][2]))
    /\ regex_title # None => <<regex_title[1], regex_text>> \in Range(emitted)

\* three pages sent, their first three edges in the table under two different
\* sources, and the fourth edge in the edge queue
EdgesOfTwoSourcesStored ==
    /\ Len(emitted) = 3
    /\ Len(vertices) = 3
    /\ vertices[1][1] # vertices[2][1]
    /\ Len(sqlite_q) = 1

TitleTextsRead ==
    Cardinality({n \in 2..xml_i :
                    events[n].k = "Text" /\ events[n - 1] = StartEv("title")})

\* edges known to have been sent to the edge queue: those inserted, the one
\* being inserted, and those still queued
EdgesKnownSent == Len(vertices) + Count(sqlite_pc = "insert") + Len(sqlite_q)

CountersInStep ==
    /\ LINK_COUNT <= Len(vertices) /\ Len(vertices) <= LINK_COUNT + 1
    /\ LINK_COUNT <= EdgesKnownSent
    /\ PAGE_COUNT = TitleTextsRead

CountersStepByOne ==
    /\ PAGE_COUNT' \in {PAGE_COUNT, PAGE_COUNT + 1}
    /\ LINK_COUNT' \in {LINK_COUNT, LINK_COUNT + 1}

\* C18: under every interleaving of the four threads, LINK_COUNT is the number
\* of rows inserted or one behind it and never ahead of the edges sent,
\* PAGE_COUNT is the number of title text events xml_thread has read, and each
\* step leaves a counter as it is or adds one to it.
CountersLoseNoUpdate == []CountersInStep /\ [][CountersStepByOne]_vars

\* all five titles and all six edges counted, progress_thread reading along
AllPagesAndLinksCounted ==
    /\ PAGE_COUNT = 5 /\ LINK_COUNT = 6 /\ Len(vertices) = 6
    /\ progress_pc = "loop"

\* the three workers have been spawned, none has failed, and xml_thread has
\* not reached end-of-stream
PipelineAtWork ==
    /\ xml_pc \notin {"unspawned", "exited"}
    /\ regex_pc # "unspawned" /\ sqlite_pc # "unspawned"
    /\ ~AnyPanicked

\* at least one of the three workers can take a step
SomeWorkerCanStep == ENABLED (XmlThread \/ RegexThread \/ SqliteThread)

\* every page sent so far has been taken off the page queue
PagesAllConsumed == regex_q = <<>>

\* every edge sent so far has been taken off the edge queue and inserted
EdgesAllInserted == sqlite_q = <<>> /\ sqlite_pc # "insert"

\* C19: while the pipeline is at work the three workers are never all blocked
\* on the queues; and under fair scheduling every page sent to the page queue
\* is eventually taken by regex_thread and every edge sent to the edge queue
\* eventually inserted by sqlite_thread, unless a worker fails.  The queues
\* are first in, first out, so a message is taken by the time its queue is
\* next empty: each queue is empty again and again.
QueuesNeverDeadlock ==
    /\ [](PipelineAtWork => SomeWorkerCanStep)
    /\ []<>(PagesAllConsumed \/ AnyPanicked)
    /\ []<>(EdgesAllInserted \/ AnyPanicked)

\* both queues are full with both producers waiting in send, and
\* sqlite_thread is about to take an edge off the edge queue
FullQueuesSinkDrains ==
    /\ PipelineAtWork
    /\ xml_pc = "send" /\ ~ENABLED XmlSend
    /\ regex_pc = "send" /\ ~ENABLED RegexSend
    /\ sqlite_pc = "recv" /\ ENABLED SqliteRecv

(***************************************************************************)
(* The page extractor on its own: xml_thread has opened its file and reads *)
(* a document that is laid down element by element as the reader gets to   *)
(* it, and regex_thread takes the pages off the queue.  main has spawned   *)
(* these two threads and is yet to spawn the others.                       *)
(***************************************************************************)
ExtractInit ==
    /\ LinkIdle
    /\ input = File(NameMulti, "multi", TRUE, <<>>)
    /\ main_pc = "spawn_sqlite"
    /\ xml_pc = "read" /\ decoder = SelectDecoder(NameMulti) /\ events = <<>>
    /\ xml_i = 0
    /\ in_title = FALSE /\ title = None /\ in_text = FALSE /\ xml_msg = None
    /\ xml_warned = 0
    /\ PAGE_COUNT = 0 /\ LINK_COUNT = 0
    /\ regex_q = <<>> /\ sqlite_q = <<>>
    /\ regex_pc = "recv" /\ regex_title = None /\ regex_text = <<>>
    /\ regex_pos = 0 /\ regex_cap = None
    /\ sqlite_pc = "unspawned" /\ sqlite_row = None /\ table = FALSE
    /\ vertices = <<>> /\ index = FALSE /\ disk = None
    /\ progress_pc = "unspawned"
    /\ emitted = <<>> /\ chunks = <<>>

EofFed == events # <<>> /\ events[Len(events)].k = "Eof"

\* the next element of the document, once the reader has used up the last
FeedElement ==
    /\ xml_pc = "read" /\ xml_i = Len(events) /\ ~EofFed
    /\ Len(chunks) < MaxChunks
    /\ \E c \in ChunkKinds :
          /\ events' = events \o EventsOf(c)
          /\ chunks' = Append(chunks, c)
    /\ UNCHANGED <<input, main_pc, xml_pc, decoder, xml_i, in_title, title, in_text,
                   xml_msg, xml_warned, emitted, PAGE_COUNT, LINK_COUNT, regex_q,
                   sqlite_q, regexVars, sqliteVars, progress_pc, linkVars>>

\* the document ends here
FeedEof ==
    /\ xml_pc = "read" /\ xml_i = Len(events) /\ ~EofFed
    /\ events' = Append(events, EofEv)
    /\ UNCHANGED <<input, main_pc, xml_pc, decoder, xml_i, in_title, title, in_text,
                   xml_msg, xml_warned, emitted, PAGE_COUNT, LINK_COUNT, regex_q,
                   sqlite_q, regexVars, sqliteVars, progress_pc, chunks, linkVars>>

ExtractNext == FeedElement \/ FeedEof \/ XmlRead \/ XmlSend \/ RegexRecv \/ RegexMatch

ExtractSpec == ExtractInit /\ [][ExtractNext]_vars

\* the title and text elements of a document, in order
RECURSIVE Skeleton(_)
Skeleton(cs) ==
    IF cs = <<>> THEN <<>>
    ELSE IF Head(cs).kind = "junk" THEN Skeleton(Tail(cs))
    ELSE <<Head(cs)>> \o Skeleton(Tail(cs))

\* title, text, title, text, ...: every title element is followed by its text
\* element (the last title's text may be yet to come)
Alternates(sk) ==
    \A n \in DOMAIN sk : sk[n].kind = (IF n % 2 = 1 THEN "title" ELSE "text")

\* the document is a sequence of title/text pairs with other markup around
\* and between them
WellFormedPairs(cs) == Alternates(Skeleton(cs))

\* the page of each complete pair: the characters of its title and of its text
PagesOfPairs(cs) ==
    LET sk == Skeleton(cs)
    IN  [n \in 1..(Len(sk) \div 2) |-> <<sk[2 * n - 1].plain, sk[2 * n].plain>>]

\* C5: while the document is a sequence of well-formed title/text pairs,
\* xml_thread does not fail, never sends anything but the pages of the pairs in
\* document order, and has sent exactly one page per complete pair, with the
\* unescaped title and text, whenever it has read all that was fed to it.
OnePagePerWellFormedPair ==
    WellFormedPairs(chunks) =>
        /\ xml_pc # "panicked"
        /\ xml_warned = 0
        /\ IsPrefix(emitted, PagesOfPairs(chunks))
        /\ (xml_i = Len(events) /\ xml_pc # "send") => emitted = PagesOfPairs(chunks)

\* two pairs, the first with other markup between its title and its text,
\* read to end-of-stream: two pages, with the entities of the second replaced
TwoPairsExtracted ==
    /\ xml_pc = "exited"
    /\ Len(chunks) = 5
    /\ WellFormedPairs(chunks)
    /\ chunks[2].kind = "junk"
    /\ emitted = << <<<<"A">>, <<"x">>>>, <<<<"B", "&">>, <<"&", "y">>>> >>

\* where a title element is directly followed by its text element
OwnPairs(sk) ==
    {n \in 1..(Len(sk) - 1) : sk[n].kind = "title" /\ sk[n + 1].kind = "text"}

\* C6: when a title element has no text element after it, or a text element
\* no title element of its own before it, extraction does not end normally at
\* end-of-stream, and no page is sent for the unpaired element.
UnpairedElementFails ==
    /\ xml_pc = "exited" => (WellFormedPairs(chunks) /\ Len(Skeleton(chunks)) % 2 = 0)
    /\ Len(emitted) <= Cardinality(OwnPairs(Skeleton(chunks)))

(***************************************************************************)
(* The page extractor event by event: xml_thread has opened its file and   *)
(* reads a document laid down one event at a time, so that every order of  *)
(* events a reader can return is tried.  main has spawned xml_thread and   *)
(* is yet to spawn regex_thread; the pages wait in the page queue.         *)
(***************************************************************************)
EventKinds ==
    { StartEv("title"), StartEv("text"), StartEv("ns"), TextEv(<<"x">>),
      TextEv(<<"y">>), EndEv, OtherEv }

EventInit ==
    /\ LinkIdle
    /\ input = File(NameMulti, "multi", TRUE, <<>>)
    /\ main_pc = "spawn_regex"
    /\ xml_pc = "read" /\ decoder = SelectDecoder(NameMulti) /\ events = <<>>
    /\ xml_i = 0
    /\ in_title = FALSE /\ title = None /\ in_text = FALSE /\ xml_msg = None
    /\ xml_warned = 0
    /\ PAGE_COUNT = 0 /\ LINK_COUNT = 0
    /\ regex_q = <<>> /\ sqlite_q = <<>>
    /\ regex_pc = "unspawned" /\ regex_title = None /\ regex_text = <<>>
    /\ regex_pos = 0 /\ regex_cap = None
    /\ sqlite_pc = "unspawned" /\ sqlite_row = None /\ table = FALSE
    /\ vertices = <<>> /\ index = FALSE /\ disk = None
    /\ progress_pc = "unspawned"
    /\ emitted = <<>> /\ chunks = <<>>

\* the next event of the document, once the reader has used up the last
FeedEvent ==
    /\ xml_pc = "read" /\ xml_i = Len(events) /\ ~EofFed
    /\ Len(events) < MaxEvents
    /\ \E e \in EventKinds : events' = Append(events, e)
    /\ UNCHANGED <<input, main_pc, xml_pc, decoder, xml_i, in_title, title, in_text,
                   xml_msg, xml_warned, emitted, PAGE_COUNT, LINK_COUNT, regex_q,
                   sqlite_q, regexVars, sqliteVars, progress_pc, chunks, linkVars>>

EventNext == FeedEvent \/ FeedEof \/ XmlRead \/ XmlSend

EventSpec == EventInit /\ [][EventNext]_vars

\* The extractor of the specification, run over the first n events of the
\* document: Idle, InTitleTag (inside an open title element), HaveTitle (title
\* captured, awaiting the text element), InTextTag (inside an open text
\* element); Ended after end-of-stream in Idle, Failed after end-of-stream
\* elsewhere or after an unexpected event while a field is being captured.
RECURSIVE ExtractorState(_)
ExtractorState(n) ==
    IF n = 0 THEN "Idle"
    ELSE LET st == ExtractorState(n - 1)
             e == events[n]
         IN  CASE st \in {"Failed", "Ended"} -> st
               [] e.k = "Eof" -> IF st = "Idle" THEN "Ended" ELSE "Failed"
               [] st = "Idle" -> IF e = StartEv("title") THEN "InTitleTag" ELSE "Idle"
               [] st = "InTitleTag" -> IF e.k = "Text" THEN "HaveTitle" ELSE "Failed"
               [] st = "HaveTitle" -> IF e = StartEv("text") THEN "InTextTag" ELSE "HaveTitle"
               [] st = "InTextTag" -> IF e.k = "Text" THEN "Idle" ELSE "Failed"

\* C12: extraction ends normally only on end-of-stream in Idle; end-of-stream
\* in any other state, or an unexpected event while a title or a text is
\* being captured, makes xml_thread fail.
MalformedDocumentFails ==
    /\ xml_pc = "exited" => ExtractorState(xml_i) = "Ended"
    /\ ExtractorState(xml_i) = "Failed" => xml_pc = "panicked"

\* the last event at or before n that is neither text nor a comment-like
\* event: where the element open at n started, or 0
ElementStart(n) ==
    LET S == {m \in 1..n : events[m].k \notin {"Text", "Other"}}
    IN  IF S = {} THEN 0 ELSE CHOOSE m \in S : \A k \in S : k <= m

\* the text events read so far of the element open at n
Runs(n) == {k \in (ElementStart(n) + 1)..n : events[k].k = "Text"}

\* the page xml_thread produced last
LastPage == IF xml_msg # None THEN xml_msg ELSE SubSeq(emitted, Len(emitted), Len(emitted))

\* C13: when the content of a title or text element has come as one or more
\* text events (with comment-like events between them), the title held is the
\* first run of the title element, and the page produced from a text element
\* carries its first run.
OnlyFirstRunCaptured ==
    LET m == ElementStart(xml_i)
        runs == Runs(xml_i)
    IN  (xml_pc \in {"read", "send"} /\ m > 0 /\ runs # {}) =>
            LET first == Unescape(events[Min(runs)].raw).val
            IN  /\ (events[m] = StartEv("title") /\ ~in_text) => title = Some(first)
                /\ (events[m] = StartEv("text") /\ ~in_title /\ title # None)
                       => (LastPage # <<>> /\ LastPage[1] = <<title[1], first>>)

\* C14: the extractor is never capturing a title and a text at the same time.
FlagsExclusive == ~(in_title /\ in_text)

\* an event that is not part of a title or text element
Transparent(e) ==
    e.k \in {"Start", "Text", "End", "Other"} /\ e # StartEv("title") /\ e # StartEv("text")

\* C17: when xml_thread reads a transparent event while it is in neither
\* element (Idle, or holding a title and awaiting the text element), it sends no
\* page, keeps the title it holds and enters neither capturing state.
TransparentEventsIgnored ==
    [][ ( /\ xml_pc = "read" /\ xml_i' = xml_i + 1
          /\ ~in_title /\ ~in_text
          /\ Transparent(events[xml_i + 1]) )
        => ( /\ xml_pc' = "read" /\ xml_msg' = xml_msg /\ emitted' = emitted
             /\ regex_q' = regex_q /\ title' = title
             /\ ~in_title' /\ ~in_text' ) ]_vars

\* a title has been captured and its element closed; a comment, a text, and
\* the start of another element have then been read, and nothing has changed
TransparentEventsRead ==
    /\ events = <<StartEv("title"), TextEv(<<"x">>), EndEv, OtherEv, TextEv(<<"y">>),
                  StartEv("ns")>>
    /\ xml_i = Len(events) /\ xml_pc = "read"
    /\ title = Some(<<"x">>) /\ ~in_title /\ ~in_text
    /\ emitted = <<>> /\ regex_q = <<>> /\ xml_msg = None

(***************************************************************************)
(* The link extractor on its own: a text is built from fragments, then the *)
(* body of regex_thread's outer loop is run on the page (lk_title, text).  *)
(***************************************************************************)
Frags == {<<"[", "[">>, <<"]", "]">>, <<"[">>, <<"]">>, <<"|">>, <<"a">>, <<"b">>}

\* "See [[Rust (programming language)|Rust]] and [[WebAssembly]]." with the
\* target "Rust (programming language)" written a, "Rust" written b,
\* "WebAssembly" written b a, and the text around the links written s
ExampleText ==
    <<"s", "[", "[", "a", "|", "b", "]", "]", "s", "[", "[", "b", "a", "]", "]", "s">>

LinkInit ==
    /\ PipeIdle
    /\ lk_title = <<"A">>
    /\ lk_text \in {<<>>, ExampleText}
    /\ lk_n = 0
    /\ lk_out = <<>>
    /\ lk_done = FALSE

\* one more fragment is appended to the text
LinkAppend ==
    /\ ~lk_done
    /\ lk_n < MaxFrags
    /\ \E f \in Frags : lk_text' = lk_text \o f
    /\ lk_n' = lk_n + 1
    /\ UNCHANGED <<lk_title, lk_out, lk_done, pipeVars>>

\* for capture in regex.captures_iter(&text) { send((title.clone(), capture[1])) }
LinkRun ==
    /\ ~lk_done
    /\ lk_out' = LinkEdges(lk_title, lk_text)
    /\ lk_done' = TRUE
    /\ UNCHANGED <<lk_title, lk_text, lk_n, pipeVars>>

LinkNext == LinkAppend \/ LinkRun

LinkSpec == LinkInit /\ [][LinkNext]_vars

(***************************************************************************)
(* C7.  The link tokens of a text, stated without the regex: a token is a  *)
(* substring [[ C ]] with C a non-empty run of non-bracket characters; its *)
(* target X is C when C has the form X, and the part before the pipe when  *)
(* C has the form X|Y, X non-empty in both.  Two tokens never overlap (a   *)
(* token holds no bracket between its [[ and its ]]), so the tokens of a   *)
(* text are ordered by where they start.                                   *)
(***************************************************************************)
IsToken(s, p, q) ==
    /\ 1 <= p /\ p + 4 <= q /\ q <= Len(s)
    /\ s[p] = "[" /\ s[p + 1] = "[" /\ s[q - 1] = "]" /\ s[q] = "]"
    /\ \A k \in (p + 2)..(q - 2) : s[k] # "[" /\ s[k] # "]"

TokenStarts(s) == {p \in 1..Len(s) : \E q \in 1..Len(s) : IsToken(s, p, q)}

TokenContent(s, p) ==
    LET q == CHOOSE q \in 1..Len(s) : IsToken(s, p, q)
    IN  SubSeq(s, p + 2, q - 2)

\* X of [[X]] or [[X|Y]]: the shortest non-empty prefix of the content that
\* is the whole content or is followed by a pipe
TokenTarget(c) ==
    LET n == Min({m \in 1..Len(c) : m = Len(c) \/ c[m + 1] = "|"})
    IN  SubSeq(c, 1, n)

RECURSIVE Ascending(_)
Ascending(S) ==
    IF S = {} THEN <<>> ELSE <<Min(S)>> \o Ascending(S \ {Min(S)})

TokenEdges(t, s) ==
    LET ps == Ascending(TokenStarts(s))
    IN  [n \in 1..Len(ps) |-> <<t, TokenTarget(TokenContent(s, ps[n]))>>]

\* C7: for every text over [ ] | and ordinary characters, the edges
\* regex_thread emits for a page are exactly one (title, X) per token [[X]] or
\* [[X|Y]] of the text, in left-to-right order, and nothing else (so nothing
\* for unbalanced brackets or for [[]]).
LinkExtractorEmitsTokens ==
    lk_done => lk_out = TokenEdges(lk_title, lk_text)

\* the concrete scenario of C7 has been run and gave its two edges in order
LinkExampleExtracted ==
    /\ lk_done
    /\ lk_text = ExampleText
    /\ lk_out = << <<lk_title, <<"a">> >>, <<lk_title, <<"b", "a">> >> >>

\* the content of a token up to its first pipe (all of it when it has none)
TruncateAtPipe(c) ==
    LET P == {m \in 1..Len(c) : c[m] = "|"}
    IN  IF P = {} THEN c ELSE SubSeq(c, 1, Min(P) - 1)

\* C16: the target of every edge regex_thread emits is the content of its
\* token cut at the first pipe: not empty, without [ or ], and without |.
TargetsCutAtFirstPipe ==
    lk_done =>
        LET ps == Ascending(TokenStarts(lk_text))
        IN  \A n \in DOMAIN lk_out :
               LET target == lk_out[n][2]
               IN  /\ target # <<>>
                   /\ \A k \in DOMAIN target : target[k] \notin {"[", "]", "|"}
                   /\ n \in DOMAIN ps
                   /\ target = TruncateAtPipe(TokenContent(lk_text, ps[n]))

=============================================================================
